---- MODULE Spec2Model ----
(***************************************************************************)
(* Model of the anthropic-rs client: the two entry points of Client        *)
(* (create_message, stream_message), the classification of a failed HTTP   *)
(* exchange, and the loop of stream_message that decodes the response body  *)
(* chunk by chunk into server-sent-event frames and parses their payloads. *)
(*                                                                         *)
(* The response body is a sequence of byte tokens.  A token stands for a   *)
(* run of bytes that the model never cuts ("data: ", one field line, the   *)
(* head of a JSON object); chunk boundaries fall between any two tokens.   *)
(***************************************************************************)
EXTENDS Integers, Sequences, FiniteSets, TLC

(* ------------------------------------------------------------------ *)
(* Bounds of the model                                                 *)
(* ------------------------------------------------------------------ *)
MaxFrames == 2
MaxChunks == 3

(* ------------------------------------------------------------------ *)
(* Byte tokens                                                         *)
(* ------------------------------------------------------------------ *)
LF == "\n"
PFX == "data: "
EVL == "event: x"
IDL == "id: 1"
CMT == ": ping"
PFX_TRIMMED == "data:"
CLOSE == "}"
U1 == "C3"
U2 == "A9"
BADBYTE == "FF"

\* the heads of the JSON payloads: everything of the object but the text
\* that follows and the closing brace
JsonHeads ==
    {"{message_start", "{content_block_delta", "{message_stop", "{error",
     "{future_event", "{content_block_delta?"}

\* the type discriminator a payload head carries
TypeOf(head) ==
    CASE head = "{message_start" -> "message_start"
      [] head = "{content_block_delta" -> "content_block_delta"
      [] head = "{content_block_delta?" -> "content_block_delta"
      [] head = "{message_stop" -> "message_stop"
      [] head = "{error" -> "error"
      [] OTHER -> "future_event"

\* whether the payload carries the fields its type requires
HasRequiredFields(head) == head # "{content_block_delta?"

\* the variants of StreamEvent
RecognizedTypes ==
    {"message_start", "content_block_start", "ping", "content_block_delta",
     "content_block_stop", "message_delta", "message_stop", "error"}

(* ------------------------------------------------------------------ *)
(* String functions the loop uses                                      *)
(* ------------------------------------------------------------------ *)
\* std::str::from_utf8: every lead byte is followed by its continuation
\* byte, no continuation byte stands alone, no byte is out of range
RECURSIVE from_utf8_ok(_)
from_utf8_ok(bytes) ==
    IF bytes = <<>> THEN TRUE
    ELSE IF Head(bytes) = BADBYTE \/ Head(bytes) = U2 THEN FALSE
    ELSE IF Head(bytes) = U1
         THEN /\ Len(bytes) >= 2
              /\ bytes[2] = U2
              /\ from_utf8_ok(SubSeq(bytes, 3, Len(bytes)))
    ELSE from_utf8_ok(Tail(bytes))

\* str::split("\n\n"): the pieces between non-overlapping matches, found
\* left to right, empty pieces included
RECURSIVE SplitFramesFrom(_, _)
SplitFramesFrom(s, cur) ==
    IF s = <<>> THEN <<cur>>
    ELSE IF Len(s) >= 2 /\ s[1] = LF /\ s[2] = LF
         THEN <<cur>> \o SplitFramesFrom(SubSeq(s, 3, Len(s)), <<>>)
    ELSE SplitFramesFrom(Tail(s), Append(cur, Head(s)))

SplitFrames(s) == SplitFramesFrom(s, <<>>)

\* str::split("\n")
RECURSIVE SplitLinesFrom(_, _)
SplitLinesFrom(s, cur) ==
    IF s = <<>> THEN <<cur>>
    ELSE IF Head(s) = LF
         THEN <<cur>> \o SplitLinesFrom(Tail(s), <<>>)
    ELSE SplitLinesFrom(Tail(s), Append(cur, Head(s)))

SplitLines(s) == SplitLinesFrom(s, <<>>)

IsWhitespace(b) == b = LF

RECURSIVE TrimStart(_)
TrimStart(s) ==
    IF s # <<>> /\ IsWhitespace(Head(s)) THEN TrimStart(Tail(s)) ELSE s

\* the last token may itself end in white space: "data: " loses its space
RECURSIVE TrimEnd(_)
TrimEnd(s) ==
    IF s # <<>> /\ IsWhitespace(s[Len(s)])
    THEN TrimEnd(SubSeq(s, 1, Len(s) - 1))
    ELSE IF s # <<>> /\ s[Len(s)] = PFX
         THEN SubSeq(s, 1, Len(s) - 1) \o <<PFX_TRIMMED>>
    ELSE s

\* str::trim
Trim(s) == TrimEnd(TrimStart(s))

\* str::strip_prefix("data: "): Some(rest) or None
StripPrefix(line) ==
    IF line # <<>> /\ Head(line) = PFX
    THEN [some |-> TRUE, rest |-> Tail(line)]
    ELSE [some |-> FALSE, rest |-> <<>>]

RECURSIVE Flatten(_)
Flatten(ss) == IF ss = <<>> THEN <<>> ELSE Head(ss) \o Flatten(Tail(ss))

(* ------------------------------------------------------------------ *)
(* Event parser                                                        *)
(* ------------------------------------------------------------------ *)
\* the text carried between the head of a payload and its closing brace
TextOf(content) == SubSeq(content, 2, Len(content) - 1)

\* whether the payload is one JSON object
IsJsonObject(content) ==
    /\ Len(content) >= 2
    /\ Head(content) \in JsonHeads
    /\ content[Len(content)] = CLOSE
    /\ \A i \in 2..(Len(content) - 1) : content[i] \in {U1, U2}

\* StreamEvent::from_str: the event of the payload, or the error
from_str(content) ==
    IF ~IsJsonObject(content)
    THEN [ok |-> FALSE, err |-> "MalformedEvent", type |-> "", text |-> <<>>]
    ELSE IF TypeOf(Head(content)) \notin RecognizedTypes
    THEN [ok |-> FALSE, err |-> "UnrecognizedEventType",
          type |-> TypeOf(Head(content)), text |-> <<>>]
    ELSE IF ~HasRequiredFields(Head(content))
    THEN [ok |-> FALSE, err |-> "MalformedEvent",
          type |-> TypeOf(Head(content)), text |-> <<>>]
    ELSE [ok |-> TRUE, err |-> "",
          type |-> TypeOf(Head(content)), text |-> TextOf(content)]

(* ------------------------------------------------------------------ *)
(* Results of an entry point                                           *)
(* ------------------------------------------------------------------ *)
\* an API Error Envelope: the kind of the error and its message
NoEnvelope == [kind |-> "", message |-> ""]

Pending == [kind |-> "Pending", error |-> "", detail |-> "", envelope |-> NoEnvelope]
OkResult(what) ==
    [kind |-> "Ok", error |-> "", detail |-> what, envelope |-> NoEnvelope]
ErrResult(error, detail) ==
    [kind |-> "Err", error |-> error, detail |-> detail, envelope |-> NoEnvelope]
ApiError(envelope) ==
    [kind |-> "Err", error |-> "Api", detail |-> "", envelope |-> envelope]
PanicResult(at) ==
    [kind |-> "Panic", error |-> "", detail |-> at, envelope |-> NoEnvelope]

(* ------------------------------------------------------------------ *)
(* The body of the streaming loop                                      *)
(* ------------------------------------------------------------------ *)
\* the state the loop of stream_message builds: the events parsed, what
\* became of each non-empty frame, the text printed, and the result
NewSession == [events |-> <<>>, log |-> <<>>, out |-> <<>>, result |-> Pending]

LogEntry(n, frame, outcome, type) ==
    [chunk |-> n, frame |-> frame, outcome |-> outcome, type |-> type]

\* one iteration of `for event in chunk_str.split("\n\n")`, in chunk n
ProcessFrame(st, piece, n) ==
    LET event == Trim(piece)
        data == SplitLines(event)
        content == StripPrefix(data[2])
        parsed == from_str(content.rest)
    IN  IF event = <<>> THEN st
        ELSE IF Len(data) < 2
        THEN [st EXCEPT !.log = Append(@, LogEntry(n, event, "panic", "")),
                        !.result = PanicResult("data[1]")]
        ELSE IF ~content.some
        THEN [st EXCEPT !.log = Append(@, LogEntry(n, event, "no_data", ""))]
        ELSE IF ~parsed.ok
        THEN [st EXCEPT !.log = Append(@, LogEntry(n, event, "error", parsed.type)),
                        !.result = ErrResult(parsed.err, parsed.type)]
        ELSE [st EXCEPT !.log = Append(@, LogEntry(n, event, "event", parsed.type)),
                        !.events = Append(@, [type |-> parsed.type,
                                              text |-> parsed.text]),
                        !.out = IF parsed.type = "content_block_delta"
                                THEN @ \o <<"Hi">> \o parsed.text
                                ELSE @]

\* the for loop: a panic or a `?` leaves it
RECURSIVE ProcessFrames(_, _, _)
ProcessFrames(st, pieces, n) ==
    IF pieces = <<>> \/ st.result # Pending THEN st
    ELSE ProcessFrames(ProcessFrame(st, Head(pieces), n), Tail(pieces), n)

\* the body of `while let Some(chunk)` for the n-th chunk
ProcessChunk(st, chunk, n) ==
    IF ~from_utf8_ok(chunk)
    THEN [st EXCEPT !.result = PanicResult("from_utf8.unwrap")]
    ELSE ProcessFrames(st, SplitFrames(chunk), n)

\* the whole loop over the chunks cs, the first of them being chunk n
RECURSIVE ProcessChunks(_, _, _)
ProcessChunks(st, cs, n) ==
    IF st.result # Pending THEN st
    ELSE IF cs = <<>> THEN [st EXCEPT !.result = OkResult("unit")]
    ELSE ProcessChunks(ProcessChunk(st, Head(cs), n), Tail(cs), n + 1)

(* ------------------------------------------------------------------ *)
(* HTTP exchange                                                       *)
(* ------------------------------------------------------------------ *)
\* StatusCode::is_success
IsSuccess(code) == code >= 200 /\ code <= 299

\* a response body that is read as one text: whether it is JSON, the keys
\* of the object, and the values of the keys the client reads
Body(json, keys, type, kind, message) ==
    [json |-> json, keys |-> keys, type |-> type, kind |-> kind,
     message |-> message]

NoBody == Body(FALSE, {}, "", "", "")

\* serde_json::from_str::<ApiErrorResponse>: the envelope has a type and an
\* error, the error a type (the kind) and a message
ParseApiErrorResponse(b) ==
    IF b.json /\ {"type", "error"} \subseteq b.keys
              /\ b.kind # "" /\ b.message # ""
    THEN [ok |-> TRUE, kind |-> b.kind, message |-> b.message]
    ELSE [ok |-> FALSE, kind |-> "", message |-> ""]

\* the fields of MessageResponse that are not an Option
MessageResponseFields ==
    {"id", "type", "role", "content", "model", "stop_reason", "usage"}

\* Response::json::<MessageResponse>
ParseMessageResponse(b) ==
    b.json /\ MessageResponseFields \subseteq b.keys /\ b.type = "message"

\* as ClassifyFailure, but taking whatever the body holds for an envelope
ClassifyFailureUnparsed(b) ==
    ApiError([kind |-> b.kind, message |-> b.message])

\* the branch of a status that is not a success, once the body text is read
ClassifyFailure(b) ==
    LET parsed == ParseApiErrorResponse(b)
    IN  IF parsed.ok
        THEN ApiError([kind |-> parsed.kind, message |-> parsed.message])
        ELSE ErrResult("JsonDeserialize", "parse fault")

\* the tail of create_message
DecodeMessageResponse(b) ==
    IF ParseMessageResponse(b)
    THEN OkResult("MessageResponse")
    ELSE ErrResult("Reqwest", "decode")

(* ------------------------------------------------------------------ *)
(* What the server may answer                                          *)
(* ------------------------------------------------------------------ *)
Statuses == {199, 200, 299, 300, 400, 529}

ErrorBodies ==
    { Body(TRUE, {"type", "error"}, "error", "overloaded_error", "Overloaded"),
      Body(TRUE, {"type", "error"}, "error", "invalid_request_error", "bad request"),
      Body(TRUE, {"type"}, "error", "", ""),
      Body(FALSE, {}, "", "", "") }

SuccessBodies ==
    { Body(TRUE, MessageResponseFields \cup {"stop_sequence"}, "message", "", ""),
      Body(TRUE, MessageResponseFields, "message", "", ""),
      Body(TRUE, MessageResponseFields \ {"usage"}, "message", "", ""),
      Body(FALSE, {}, "", "", "") }

Terminated(lines) == lines \o <<LF, LF>>

EventAndData(head) == Terminated(<<EVL, LF, PFX, head, CLOSE>>)
DataOnly(head) == Terminated(<<PFX, head, CLOSE>>)

\* the frames a server may send
Catalogue ==
    { EventAndData(h) : h \in JsonHeads } \cup
    { DataOnly(h) : h \in JsonHeads } \cup
    { Terminated(<<CMT>>),
      Terminated(<<EVL>>),
      Terminated(<<EVL, LF, IDL>>),
      Terminated(<<EVL, LF, PFX, "{content_block_delta", U1, U2, CLOSE>>),
      Terminated(<<EVL, LF, PFX, "{content_block_delta", BADBYTE, CLOSE>>) }

\* the three frames of a short message
ShortMessage ==
    EventAndData("{message_start") \o DataOnly("{content_block_delta")
        \o DataOnly("{message_stop")

Streams ==
    { Flatten(fs) : fs \in UNION { [1..n -> Catalogue] : n \in 1..MaxFrames } }
        \cup {ShortMessage}

(* ------------------------------------------------------------------ *)
(* Model names                                                         *)
(* ------------------------------------------------------------------ *)
\* A model name is the sequence of its parts, joined by "-" in the code:
\* <<"claude-3-5", "sonnet", "20240620">> is "claude-3-5-sonnet-20240620".

\* the variants of Model
Models == {"Claude35Sonnet", "Claude3Opus", "Claude3Sonnet", "Claude3Haiku"}

\* Model::as_str
Model_as_str(m) ==
    CASE m = "Claude35Sonnet" -> <<"claude-3-5", "sonnet", "20240620">>
      [] m = "Claude3Opus" -> <<"claude-3", "opus", "20240229">>
      [] m = "Claude3Sonnet" -> <<"claude-3", "sonnet", "20240229">>
      [] m = "Claude3Haiku" -> <<"claude-3", "haiku", "20240307">>

\* the results of Model::from_str
ModelOk(m) == [ok |-> TRUE, model |-> m, rejected |-> <<>>]
ModelNotSupported(s) == [ok |-> FALSE, model |-> "none", rejected |-> s]
NotParsed == [ok |-> FALSE, model |-> "none", rejected |-> <<>>]

\* as Model_from_str, with the names of the two models of 20240229 swapped
Model_from_str_Swapped(s) ==
    CASE s = <<"claude-3-5", "sonnet", "20240620">> -> ModelOk("Claude35Sonnet")
      [] s = <<"claude-3", "sonnet", "20240229">> -> ModelOk("Claude3Opus")
      [] s = <<"claude-3", "opus", "20240229">> -> ModelOk("Claude3Sonnet")
      [] s = <<"claude-3", "haiku", "20240307">> -> ModelOk("Claude3Haiku")
      [] OTHER -> ModelNotSupported(s)

\* <Model as FromStr>::from_str
Model_from_str(s) ==
    CASE s = <<"claude-3-5", "sonnet", "20240620">> -> ModelOk("Claude35Sonnet")
      [] s = <<"claude-3", "opus", "20240229">> -> ModelOk("Claude3Opus")
      [] s = <<"claude-3", "sonnet", "20240229">> -> ModelOk("Claude3Sonnet")
      [] s = <<"claude-3", "haiku", "20240307">> -> ModelOk("Claude3Haiku")
      [] OTHER -> ModelNotSupported(s)

\* the strings handed to from_str: every name made of a known prefix,
\* family and date, each also followed by a space, the empty string and the
\* name of the test
NameParts ==
    { <<p, f, d>> : p \in {"claude-3-5", "claude-3", "claude-2", "Claude-3"},
                    f \in {"sonnet", "opus", "haiku", "instant"},
                    d \in {"20240620", "20240229", "20240307"} }

Names ==
    NameParts \cup { n \o <<" ">> : n \in NameParts }
        \cup { <<>>, <<"claude-invalid-model">> }

(* ------------------------------------------------------------------ *)
(* State                                                               *)
(* ------------------------------------------------------------------ *)
VARIABLES
    op,         \* the entry point called
    pc,         \* where the call stands
    status,     \* the status of the response
    body,       \* the body of a response that is read as one text
    wire,       \* the bytes of a streamed body not yet delivered
    delivered,  \* the chunks delivered so far
    events,     \* the events parsed so far
    log,        \* what became of each non-empty frame
    out,        \* the text printed
    result,     \* what the call returned
    mpc,        \* where a conversion of a model name stands
    variant,    \* the Model converted to its name
    name,       \* the name handed to from_str
    parsed      \* what from_str returned

clientVars == <<op, pc, status, body, wire, delivered, events, log, out, result>>
modelVars == <<mpc, variant, name, parsed>>
vars == <<op, pc, status, body, wire, delivered, events, log, out, result,
          mpc, variant, name, parsed>>

\* no model name is being converted
ModelIdle ==
    /\ mpc = "idle"
    /\ variant = "none"
    /\ name = <<>>
    /\ parsed = NotParsed

Session == [events |-> events, log |-> log, out |-> out, result |-> result]

Init ==
    /\ ModelIdle
    /\ pc = "start"
    /\ delivered = <<>>
    /\ events = <<>>
    /\ log = <<>>
    /\ out = <<>>
    /\ result = Pending
    /\ op \in {"create_message", "stream_message"}
    /\ status \in Statuses
    /\ \/ /\ ~IsSuccess(status)
          /\ body \in ErrorBodies
          /\ wire = <<>>
       \/ /\ IsSuccess(status)
          /\ op = "create_message"
          /\ body \in SuccessBodies
          /\ wire = <<>>
       \/ /\ IsSuccess(status)
          /\ op = "stream_message"
          /\ body = NoBody
          /\ wire \in Streams

Return(r) ==
    /\ result' = r
    /\ pc' = "done"

\* `.send().await?` fails
SendFault ==
    /\ pc = "start"
    /\ Return(ErrResult("Reqwest", "transport"))
    /\ UNCHANGED <<modelVars, op, status, body, wire, delivered, events, log, out>>

\* `.send().await?` returns the response
Send ==
    /\ pc = "start"
    /\ pc' = "responded"
    /\ UNCHANGED <<modelVars, op, status, body, wire, delivered, events, log, out, result>>

\* `response.text().await?` fails
FailureBodyFault ==
    /\ pc = "responded"
    /\ ~IsSuccess(status)
    /\ Return(ErrResult("Reqwest", "transport"))
    /\ UNCHANGED <<modelVars, op, status, body, wire, delivered, events, log, out>>

\* the status is not a success and the body is read
Failure ==
    /\ pc = "responded"
    /\ ~IsSuccess(status)
    /\ Return(ClassifyFailure(body))
    /\ UNCHANGED <<modelVars, op, status, body, wire, delivered, events, log, out>>

\* create_message reads the body of a success
CreateMessageBody ==
    /\ pc = "responded"
    /\ op = "create_message"
    /\ IsSuccess(status)
    /\ Return(DecodeMessageResponse(body))
    /\ UNCHANGED <<modelVars, op, status, body, wire, delivered, events, log, out>>

\* stream_message takes the byte stream of a success
BytesStream ==
    /\ pc = "responded"
    /\ op = "stream_message"
    /\ IsSuccess(status)
    /\ pc' = "streaming"
    /\ UNCHANGED <<modelVars, op, status, body, wire, delivered, events, log, out, result>>

\* the sizes the next chunk may have: the last chunk allowed takes the rest
ChunkSizes ==
    IF Len(delivered) + 1 >= MaxChunks THEN {Len(wire)} ELSE 1..Len(wire)

\* `stream.next().await` yields a chunk and the loop body runs on it
NextChunk ==
    /\ pc = "streaming"
    /\ wire # <<>>
    /\ \E k \in ChunkSizes :
          LET chunk == SubSeq(wire, 1, k)
              st == ProcessChunk(Session, chunk, Len(delivered) + 1)
          IN  /\ wire' = SubSeq(wire, k + 1, Len(wire))
              /\ delivered' = Append(delivered, chunk)
              /\ events' = st.events
              /\ log' = st.log
              /\ out' = st.out
              /\ result' = st.result
              /\ pc' = IF st.result = Pending THEN "streaming" ELSE "done"
    /\ UNCHANGED <<modelVars, op, status, body>>

\* `stream.next().await` yields an error and `chunk?` returns it
ChunkFault ==
    /\ pc = "streaming"
    /\ wire # <<>>
    /\ Return(ErrResult("Reqwest", "transport"))
    /\ UNCHANGED <<modelVars, op, status, body, wire, delivered, events, log, out>>

\* `stream.next().await` yields None
EndOfStream ==
    /\ pc = "streaming"
    /\ wire = <<>>
    /\ Return(OkResult("unit"))
    /\ UNCHANGED <<modelVars, op, status, body, wire, delivered, events, log, out>>

Next ==
    \/ SendFault
    \/ Send
    \/ FailureBodyFault
    \/ Failure
    \/ CreateMessageBody
    \/ BytesStream
    \/ NextChunk
    \/ ChunkFault
    \/ EndOfStream

Spec == Init /\ [][Next]_vars

TypeOK ==
    /\ pc \in {"start", "responded", "streaming", "done"}
    /\ result.kind \in {"Pending", "Ok", "Err", "Panic"}
    /\ (pc = "done") = (result # Pending)

(* ------------------------------------------------------------------ *)
(* What the stream as a whole holds                                    *)
(* ------------------------------------------------------------------ *)
\* the call went through the streaming loop and has ended
Streamed == op = "stream_message" /\ IsSuccess(status) /\ pc = "done"

\* the transport failed under the call
TransportFault == result.kind = "Err" /\ result.error = "Reqwest"

\* the bytes of the response body, delivered or not
Stream == Flatten(delivered) \o wire

\* every chunk delivered ends on the blank line that ends a frame
WholeFrameChunks ==
    \A i \in DOMAIN delivered :
        /\ Len(delivered[i]) >= 2
        /\ delivered[i][Len(delivered[i])] = LF
        /\ delivered[i][Len(delivered[i]) - 1] = LF

NonEmpty(frame) == frame # <<>>

\* the frames of a byte stream: its blank-line-delimited units
FramesOf(stream) == SelectSeq(SplitFrames(stream), NonEmpty)

\* the lines of a frame that carry the data field
IsDataLine(line) == StripPrefix(line).some
DataLines(frame) == SelectSeq(SplitLines(frame), IsDataLine)

\* what the parser makes of the data field of a frame that has one
Parsed(frame) == from_str(StripPrefix(DataLines(frame)[1]).rest)

HasData(frame) == DataLines(frame) # <<>>
YieldsEvent(frame) == HasData(frame) /\ Parsed(frame).ok
IsUnrecognized(frame) ==
    HasData(frame) /\ Parsed(frame).err = "UnrecognizedEventType"
IsMalformed(frame) ==
    /\ HasData(frame)
    /\ Parsed(frame).err = "MalformedEvent"
    /\ Parsed(frame).type \in RecognizedTypes
IsOfType(frame, type) == YieldsEvent(frame) /\ Parsed(frame).type = type

\* a frame that yields an event which ends nothing
IsPlainEvent(frame) ==
    YieldsEvent(frame) /\ Parsed(frame).type \notin {"message_stop", "error"}

\* a frame of an `event: ` line followed by a `data: ` line
IsEventAndData(frame) ==
    /\ Len(frame) >= 3
    /\ frame[1] = EVL
    /\ frame[2] = LF
    /\ frame[3] = PFX
    /\ \A i \in 4..Len(frame) : frame[i] # LF

\* the events of the frames that yield one, in the order of the frames
RECURSIVE EventsOf(_)
EventsOf(frames) ==
    IF frames = <<>> THEN <<>>
    ELSE IF YieldsEvent(Head(frames))
         THEN <<[type |-> Parsed(Head(frames)).type,
                 text |-> Parsed(Head(frames)).text]>> \o EventsOf(Tail(frames))
    ELSE EventsOf(Tail(frames))

\* the frames the loop took up, as it saw them
RECURSIVE FramesSeen(_)
FramesSeen(entries) ==
    IF entries = <<>> THEN <<>>
    ELSE <<Head(entries).frame>> \o FramesSeen(Tail(entries))

\* the loop run on the whole stream delivered as a single chunk
Unsplit == ProcessChunks(NewSession, <<Stream>>, 1)

(* ------------------------------------------------------------------ *)
(* C1                                                                  *)
(* ------------------------------------------------------------------ *)
\* C1: however the byte stream is cut into chunks, the loop decodes the
\* same frames in the same order, and parses the same events, as when the
\* whole stream arrives as a single chunk: a partial frame at the end of
\* a chunk is carried into the next chunk, neither parsed alone nor lost.
C1_SplitInvariance ==
    (Streamed /\ ~TransportFault) =>
        /\ FramesSeen(log) = FramesSeen(Unsplit.log)
        /\ events = Unsplit.events

(* ------------------------------------------------------------------ *)
(* C2                                                                  *)
(* ------------------------------------------------------------------ *)
\* the chunks of the short message, one frame each
ShortMessageChunks ==
    <<EventAndData("{message_start"), DataOnly("{content_block_delta"),
      DataOnly("{message_stop")>>

\* message_stop, if sent, is the last frame
StopIsLast(frames) ==
    \A i \in DOMAIN frames : IsOfType(frames[i], "message_stop") => i = Len(frames)

\* C2: every frame with a `data: ` line carrying a valid, recognized
\* payload yields exactly one event, with or without an `event: ` line
\* before it, and the events come in the order of the frames; the three
\* chunks of the short message yield three events in that order and the
\* call then ends without an error.  (Stated for chunks that hold whole
\* frames, so that the framing of C1 plays no part.)
C2_DataFramesYieldEventsInOrder ==
    (Streamed /\ ~TransportFault /\ WholeFrameChunks /\ wire = <<>>
        /\ (\A i \in DOMAIN FramesOf(Stream) :
                \/ IsPlainEvent(FramesOf(Stream)[i])
                \/ IsOfType(FramesOf(Stream)[i], "message_stop"))
        /\ StopIsLast(FramesOf(Stream)))
    => /\ result = OkResult("unit")
       /\ events = EventsOf(FramesOf(Stream))
       /\ delivered = ShortMessageChunks =>
              events = <<[type |-> "message_start", text |-> <<>>],
                         [type |-> "content_block_delta", text |-> <<>>],
                         [type |-> "message_stop", text |-> <<>>]>>

(* ------------------------------------------------------------------ *)
(* C3                                                                  *)
(* ------------------------------------------------------------------ *)
\* C3: a frame with no data line (a comment, a single line that is not a
\* data line, only `event: ` lines) yields no event, is no error and does
\* not end the call: the frames after it, in its chunk and in later
\* chunks, are still processed.  (Stated for chunks that hold whole
\* frames.)
C3_FramesWithoutDataAreSkipped ==
    (Streamed /\ ~TransportFault /\ WholeFrameChunks
        /\ (\E i \in DOMAIN FramesOf(Stream) : ~HasData(FramesOf(Stream)[i]))
        /\ (\A i \in DOMAIN FramesOf(Stream) :
                \/ ~HasData(FramesOf(Stream)[i])
                \/ /\ IsPlainEvent(FramesOf(Stream)[i])
                   /\ IsEventAndData(FramesOf(Stream)[i])))
    => /\ result = OkResult("unit")
       /\ wire = <<>>
       /\ events = EventsOf(FramesOf(Stream))

(* ------------------------------------------------------------------ *)
(* C4                                                                  *)
(* ------------------------------------------------------------------ *)
\* a chunk boundary fell inside a character of a stream that is valid
SplitCharacter ==
    /\ from_utf8_ok(Stream)
    /\ \E i \in DOMAIN delivered : ~from_utf8_ok(delivered[i])

\* C4: when a chunk boundary falls inside a multi-byte character of a
\* valid stream and the rest of the character arrives in a later chunk,
\* the call does not fail, neither with InvalidEncoding nor abruptly, and
\* the events are those of the unsplit stream.
C4_SplitCharacterIsTolerated ==
    (Streamed /\ ~TransportFault /\ SplitCharacter) =>
        /\ result.kind # "Panic"
        /\ result.error # "InvalidEncoding"
        /\ events = Unsplit.events

(* ------------------------------------------------------------------ *)
(* C5                                                                  *)
(* ------------------------------------------------------------------ *)
HasBadByte(chunk) == \E i \in DOMAIN chunk : chunk[i] = BADBYTE

\* C5: every fatal condition met while streaming comes back as a typed
\* error: the call returns Ok or Err, whatever the chunks, and a chunk
\* that is not valid UTF-8 makes it return the error InvalidEncoding, not
\* fail abruptly and not skip the chunk.  (Stated for frames of an
\* `event: ` and a `data: ` line, in chunks that hold whole frames.)
C5_FatalConditionsAreTypedErrors ==
    (Streamed /\ WholeFrameChunks
        /\ \A i \in DOMAIN FramesOf(Stream) : IsEventAndData(FramesOf(Stream)[i]))
    =>
        /\ result.kind \in {"Ok", "Err"}
        /\ (\E i \in DOMAIN delivered : HasBadByte(delivered[i])) =>
              (result.kind = "Err" /\ result.error = "InvalidEncoding")

(* ------------------------------------------------------------------ *)
(* C6 to C9: streams of well-formed frames                             *)
(* ------------------------------------------------------------------ *)
\* frame k is the first frame that is not a plain event, and the frames
\* before it have an `event: ` line and a `data: ` line
FirstSpecial(frames, k) ==
    /\ k \in DOMAIN frames
    /\ \A j \in 1..(k - 1) :
          IsPlainEvent(frames[j]) /\ IsEventAndData(frames[j])

AllEventAndData(frames) == \A i \in DOMAIN frames : IsEventAndData(frames[i])

\* every frame but frame k is a plain event with an `event: ` line and a
\* `data: ` line, and so is frame k but for the type of its event
OthersPlain(frames, k) ==
    /\ k \in DOMAIN frames
    /\ AllEventAndData(frames)
    /\ \A j \in DOMAIN frames : j # k => IsPlainEvent(frames[j])

\* the frames of the chunks delivered before the last one
FramesBeforeLastChunk ==
    FramesOf(Flatten(SubSeq(delivered, 1, Len(delivered) - 1)))

\* the loop stopped at frame k: it parsed nothing after it and pulled no
\* chunk after the one that holds it
StoppedAt(k) ==
    /\ Len(log) = k
    /\ Len(FramesBeforeLastChunk) < k

\* C6: a frame whose payload has an unrecognized type is skipped: it
\* yields no event, the call does not return an error for it, and the
\* next valid frame, in its chunk or a later one, is parsed and yielded.
\* (Stated for frames of an `event: ` and a `data: ` line, in chunks that
\* hold whole frames.)
C6_UnrecognizedTypeIsSkipped ==
    (Streamed /\ ~TransportFault /\ WholeFrameChunks
        /\ AllEventAndData(FramesOf(Stream))
        /\ (\E i \in DOMAIN FramesOf(Stream) : IsUnrecognized(FramesOf(Stream)[i]))
        /\ (\A i \in DOMAIN FramesOf(Stream) :
                \/ IsUnrecognized(FramesOf(Stream)[i])
                \/ IsPlainEvent(FramesOf(Stream)[i])))
    => /\ result = OkResult("unit")
       /\ wire = <<>>
       /\ events = EventsOf(FramesOf(Stream))

\* C7: a frame whose payload has a recognized type but fails the schema
\* ends the call with the error MalformedEvent: no later frame of its
\* chunk is parsed, no further chunk is pulled, no event follows.
\* (Stated for chunks that hold whole frames.)
C7_MalformedEventEndsTheSession ==
    \A k \in DOMAIN FramesOf(Stream) :
        (Streamed /\ ~TransportFault /\ WholeFrameChunks
            /\ FirstSpecial(FramesOf(Stream), k)
            /\ IsMalformed(FramesOf(Stream)[k]))
        => /\ result.kind = "Err"
           /\ result.error = "MalformedEvent"
           /\ events = EventsOf(SubSeq(FramesOf(Stream), 1, k - 1))
           /\ StoppedAt(k)

\* what does hold: in a stream that is valid UTF-8, a malformed payload on
\* the second line of a frame that the loop sees whole ends the call with
\* the parser's error
MalformedSecondLineEndsTheSession ==
    \A k \in DOMAIN FramesOf(Stream) :
        (Streamed /\ ~TransportFault /\ WholeFrameChunks
            /\ FirstSpecial(FramesOf(Stream), k)
            /\ IsMalformed(FramesOf(Stream)[k])
            /\ IsEventAndData(FramesOf(Stream)[k])
            /\ from_utf8_ok(Stream))
        => /\ result.kind = "Err"
           /\ result.error = "MalformedEvent"
           /\ events = EventsOf(SubSeq(FramesOf(Stream), 1, k - 1))
           /\ StoppedAt(k)

\* the envelope the error events of the catalogue carry
EmbeddedEnvelope == [kind |-> "overloaded_error", message |-> "Overloaded"]

\* C8: a frame with the error discriminator ends the call with a failure
\* that carries the embedded API Error Envelope; the frame is not taken as
\* a normal event and no frame after it is processed.  (Stated for frames
\* of an `event: ` and a `data: ` line, in chunks that hold whole frames.)
C8_ErrorEventEndsTheSession ==
    \A k \in DOMAIN FramesOf(Stream) :
        (Streamed /\ ~TransportFault /\ WholeFrameChunks
            /\ OthersPlain(FramesOf(Stream), k)
            /\ IsOfType(FramesOf(Stream)[k], "error"))
        => /\ result = ApiError(EmbeddedEnvelope)
           /\ events = EventsOf(SubSeq(FramesOf(Stream), 1, k - 1))
           /\ StoppedAt(k)

\* C9: the call ends, once and cleanly, as soon as message_stop is
\* parsed: no frame left in the chunk is parsed, no further chunk is
\* pulled, no event or error follows, even if the transport has more.
\* (Stated for frames of an `event: ` and a `data: ` line, in chunks that
\* hold whole frames.)
C9_MessageStopEndsTheSession ==
    \A k \in DOMAIN FramesOf(Stream) :
        (Streamed /\ ~TransportFault /\ WholeFrameChunks
            /\ OthersPlain(FramesOf(Stream), k)
            /\ IsOfType(FramesOf(Stream)[k], "message_stop"))
        => /\ result = OkResult("unit")
           /\ events = EventsOf(SubSeq(FramesOf(Stream), 1, k))
           /\ StoppedAt(k)

(* ------------------------------------------------------------------ *)
(* C10                                                                 *)
(* ------------------------------------------------------------------ *)
\* C10: in both entry points a status that is not 2xx is classified
\* before any success body or chunk is processed: the result is Api with
\* the kind and message of the envelope if the body parses as one, and
\* otherwise a different error that carries the parse fault; such an
\* exchange yields no success value and no event, and a 2xx exchange
\* never yields Api.
C10_FailureStatusIsClassified ==
    /\ ~IsSuccess(status) =>
          /\ delivered = <<>> /\ events = <<>> /\ log = <<>> /\ out = <<>>
          /\ result.kind \in {"Pending", "Err"}
          /\ (pc = "done" /\ ~TransportFault) =>
                IF ParseApiErrorResponse(body).ok
                THEN /\ result.error = "Api"
                     /\ result.envelope = [kind |-> body.kind,
                                           message |-> body.message]
                ELSE /\ result.error = "JsonDeserialize"
                     /\ result.envelope = NoEnvelope
    /\ IsSuccess(status) => result.error # "Api"

\* both entry points have classified a failure, one as Api and one not
C10_Witness ==
    /\ pc = "done"
    /\ ~IsSuccess(status)
    /\ op = "stream_message"
    /\ result.error = "Api"
    /\ result.envelope = [kind |-> "overloaded_error", message |-> "Overloaded"]

(* ------------------------------------------------------------------ *)
(* Conversions of model names                                          *)
(* ------------------------------------------------------------------ *)
\* no call of the client is under way
ClientIdle ==
    /\ op = "none"
    /\ pc = "idle"
    /\ status \in {200}
    /\ body = NoBody
    /\ wire = <<>>
    /\ delivered = <<>>
    /\ events = <<>>
    /\ log = <<>>
    /\ out = <<>>
    /\ result = Pending

\* a Model to convert to its name, or a string to parse
ModelInit ==
    /\ ClientIdle
    /\ parsed = NotParsed
    /\ \/ /\ mpc = "variant"
          /\ variant \in Models
          /\ name = <<>>
       \/ /\ mpc = "named"
          /\ variant = "none"
          /\ name \in Names

\* m.as_str()
AsStr ==
    /\ mpc = "variant"
    /\ name' = Model_as_str(variant)
    /\ mpc' = "named"
    /\ UNCHANGED <<clientVars, variant, parsed>>

\* Model::from_str(name)
FromStr ==
    /\ mpc = "named"
    /\ parsed' = Model_from_str(name)
    /\ mpc' = "parsed"
    /\ UNCHANGED <<clientVars, variant, name>>

ModelNext ==
    \/ AsStr
    \/ FromStr

ModelSpec == ModelInit /\ [][ModelNext]_vars

(* ------------------------------------------------------------------ *)
(* C11                                                                 *)
(* ------------------------------------------------------------------ *)
\* the four names as_str returns
ModelNames == { Model_as_str(m) : m \in Models }

\* C11: the names of the models round-trip: from_str of the name of a
\* variant returns that variant, two variants never have the same name,
\* and from_str of a string that is none of the four names returns the
\* error ModelNotSupported carrying that string.
C11_ModelNamesRoundTrip ==
    /\ mpc = "parsed" /\ variant \in Models => parsed = ModelOk(variant)
    /\ mpc = "parsed" /\ name \notin ModelNames =>
          parsed = ModelNotSupported(name)
    /\ \A m1, m2 \in Models : m1 # m2 => Model_as_str(m1) # Model_as_str(m2)

\* the name of Claude3Sonnet has been parsed back
C11_Witness ==
    /\ mpc = "parsed"
    /\ variant = "Claude3Sonnet"
    /\ name = <<"claude-3", "sonnet", "20240229">>
    /\ parsed.ok

====
